---- MODULE Spec2Model ----
(***************************************************************************)
(* Model of server/vulnerabilities/sync.go: Sync (acquisition of the four  *)
(* feeds) and LoadCVEMeta (parse, merge and persist of the CVE metadata).  *)
(*                                                                         *)
(* Numbers: floating point scores are written in hundredths (7.5 is 750,   *)
(* 0.42 is 42); a parsed publication time is written yyyymmdd.             *)
(* Optional (pointer) fields are sequences of length at most one: <<>> is  *)
(* the nil pointer, <<v>> a pointer to v.                                  *)
(***************************************************************************)
EXTENDS FiniteSets, Integers, Sequences, TLC

\* ------------------------------------------------------------------ bounds

\* data rows of the EPSS csv file after its header
MaxRows == 2
\* entries of the "vulnerabilities" list of the CISA catalog
MaxVulns == 1

\* ------------------------------------------------------------- basic values

Nil == <<>>
Some(v) == <<v>>

EmptyMap == <<>>

\* m[k] = v, as a Go map assignment
Put(m, k, v) == [x \in (DOMAIN m) \cup {k} |-> IF x = k THEN v ELSE m[x]]

SeqsUpTo(S, n) == UNION {[1..k -> S] : k \in 0..n}

\* every order in which a Go range over a map with key set S can visit it
Orders(S) == {o \in [1..Cardinality(S) -> S] : \A i, j \in DOMAIN o : i # j => o[i] # o[j]}

\* ------------------------------------------------------ the files on disk

CVEs == {"V-1", "V-2"}

GoodDate == "2021-01-01T00:00Z"
BadDate == "01/01/2021"

\* entries of the NVD dictionary (feednvd.Vuln schema): the version 3 base
\* score when the entry has a BaseMetricV3 block, and the published date
VulnSchemas ==
    {[BaseMetricV3 |-> Some(750), PublishedDate |-> d] : d \in {GoodDate, BadDate}}
        \cup {[BaseMetricV3 |-> Nil, PublishedDate |-> BadDate]}

Dictionaries == UNION {[K -> VulnSchemas] : K \in SUBSET CVEs}

\* the NVD feed directory: listing it fails, decoding a file fails, or the
\* files decode to a dictionary
NVDFeeds ==
    {[state |-> s, dict |-> EmptyMap] : s \in {"listError", "loadError"}}
        \cup {[state |-> "ok", dict |-> d] : d \in Dictionaries}

HeaderLine == [comment |-> FALSE, fields |-> <<"cve", "epss", "percentile">>]
CommentLine == [comment |-> TRUE, fields |-> <<"#model_version:v1">>]

CSVRecords ==
    {<<c, s, "0.5">> : c \in CVEs, s \in {"0.42", "0.10"}}
        \cup {<<"", "0.42", "0.5">>, <<"V-1", "abc", "0.5">>, <<"V-2", "0.10">>}

CSVLines == {[comment |-> FALSE, fields |-> r] : r \in CSVRecords} \cup {CommentLine}

EPSSFiles ==
    {[exists |-> FALSE, lines |-> <<>>]}
        \cup {[exists |-> TRUE, lines |-> <<CommentLine, HeaderLine>> \o b] :
                b \in SeqsUpTo(CSVLines, MaxRows)}

\* a JSON object of the "vulnerabilities" list: with or without a "cveID" key
JSONVulns ==
    {[hasCveID |-> TRUE, cveID |-> c] : c \in CVEs}
        \cup {[hasCveID |-> FALSE, cveID |-> "-"]}

CISAFiles ==
    {[exists |-> FALSE, wellFormed |-> FALSE, vulnerabilities |-> <<>>],
     [exists |-> TRUE, wellFormed |-> FALSE, vulnerabilities |-> <<>>]}
        \cup {[exists |-> TRUE, wellFormed |-> TRUE, vulnerabilities |-> v] :
                v \in SeqsUpTo(JSONVulns, MaxVulns)}

\* ------------------------------------------ FlashMessage: props

\* the notification objects the parent can pass, told apart by id
MaxNotifications == 2

\* notification = null: "notification || {}" has no alertType and no isVisible
NullNotification == [id |-> 0, alertType |-> "undefined", isVisible |-> FALSE]

Notifications ==
    {NullNotification} \cup
        [id : 1..MaxNotifications, alertType : {"success", "error"}, isVisible : BOOLEAN]

AllProps == [notification : Notifications, isPersistent : BOOLEAN]

\* the component is not mounted
NoProps == [notification |-> NullNotification, isPersistent |-> FALSE]

\* the dependency array [notification, alertType, isVisible, setHide] of the
\* effect: notification counts by identity, setHide never changes
Deps(p) == <<p.notification.id, p.notification.alertType, p.notification.isVisible>>

NoRemove == [by |-> "none", timerDeps |-> Deps(NoProps), props |-> NoProps]

\* ---------------------------------------------------------------- state

VARIABLES
    cpeDB,          \* the downloaded CPE database file
    nvdFeed,        \* the downloaded NVD feed files
    epssFile,       \* the downloaded, extracted EPSS csv file
    cisaFile,       \* the downloaded CISA catalog file
    loopVarShared,  \* the build: TRUE when a range variable is one variable
                    \* for the whole loop, FALSE when each iteration has its own
    store,          \* the cve_meta rows of the datastore, by CVE
    store0,         \* the rows before LoadCVEMeta was called
    pc,             \* position in LoadCVEMeta
    err,            \* error returned by LoadCVEMeta, outermost message first
    metaMap,        \* LoadCVEMeta's metaMap
    epssScores,     \* LoadCVEMeta's epssScores
    epssHeap,       \* the storage the EPSSProbability pointers point to
    insertCalls,    \* the calls of ds.InsertCVEMeta made so far
    syncPc,         \* position in Sync
    downloads,      \* the downloads Sync attempted so far, with their errors
    syncErr,        \* error returned by Sync, outermost message first
    props,          \* FlashMessage: the props of the render last committed
    hide,           \* FlashMessage: the hide state
    effectPending,  \* FlashMessage: the effect of the last render has not run yet
    timer,          \* FlashMessage: the timeout the last effect set, while pending
    lastRemove      \* FlashMessage: the last call of onRemoveFlash

vars == <<cpeDB, nvdFeed, epssFile, cisaFile, loopVarShared, store, store0, pc, err,
          metaMap, epssScores, epssHeap, insertCalls, syncPc, downloads, syncErr,
          props, hide, effectPending, timer, lastRemove>>

flashVars == <<props, hide, effectPending, timer, lastRemove>>

files == <<cpeDB, nvdFeed, epssFile, cisaFile>>
loadVars == <<store, pc, err, metaMap, epssScores, epssHeap, insertCalls>>
syncVars == <<syncPc, downloads, syncErr>>

\* ------------------------------------------------------------ conversions

\* time.Parse(publishedDateFmt, value)
timeParse(value) ==
    IF value = "2021-01-01T00:00Z"
    THEN [val |-> 20210101, err |-> Nil]
    ELSE [val |-> 0, err |-> <<"parsing time: cannot parse">>]

\* strconv.ParseFloat(s, 64), in hundredths
ParseFloat(s) ==
    CASE s = "0.42" -> [val |-> 42, err |-> Nil]
      [] s = "0.10" -> [val |-> 10, err |-> Nil]
      [] s = "0.5" -> [val |-> 50, err |-> Nil]
      [] OTHER -> [val |-> 0, err |-> <<"strconv.ParseFloat: invalid syntax">>]

\* ------------------------------------------------------ parseEPSSScoresFile

\* r.FieldsPerRecord = 3
FieldsPerRecord == 3

RECURSIVE skipComments(_)
\* r.Comment = '#': lines beginning with the comment character are ignored
skipComments(lines) ==
    IF lines # <<>> /\ Head(lines).comment THEN skipComments(Tail(lines)) ELSE lines

\* csv.Reader.Read with FieldsPerRecord > 0: the next record, with
\* ErrFieldCount when it has another number of fields; io.EOF at the end
csvRead(lines) ==
    LET l == skipComments(lines) IN
    IF l = <<>>
    THEN [rec |-> <<>>, err |-> <<"EOF">>, rest |-> <<>>]
    ELSE [rec |-> Head(l).fields,
          err |-> IF Len(Head(l).fields) # FieldsPerRecord
                  THEN <<"record on line: wrong number of fields">>
                  ELSE Nil,
          rest |-> Tail(l)]

RECURSIVE readLoop_skipBadScore(_, _)
\* readLoop, but a score that is no number is skipped like a short row
readLoop_skipBadScore(lines, acc) ==
    LET r == csvRead(lines) IN
    IF r.err = <<"EOF">> THEN [epssScores |-> acc, err |-> Nil]
    ELSE IF r.err # Nil THEN [epssScores |-> <<>>, err |-> r.err]
    ELSE IF Len(r.rec) # 3 THEN readLoop_skipBadScore(r.rest, acc)
    ELSE LET score == ParseFloat(r.rec[2]) IN
         IF score.err # Nil
         THEN readLoop_skipBadScore(r.rest, acc)
         ELSE readLoop_skipBadScore(r.rest,
                  Append(acc, [CVE |-> r.rec[1], Score |-> score.val]))

RECURSIVE readLoop(_, _)
\* the for loop of parseEPSSScoresFile
readLoop(lines, acc) ==
    LET r == csvRead(lines) IN
    IF r.err = <<"EOF">> THEN [epssScores |-> acc, err |-> Nil]
    ELSE IF r.err # Nil THEN [epssScores |-> <<>>, err |-> r.err]
    ELSE IF Len(r.rec) # 3 THEN readLoop(r.rest, acc)
    ELSE LET score == ParseFloat(r.rec[2]) IN
         IF score.err # Nil
         THEN [epssScores |-> <<>>, err |-> <<"parse epss score">> \o score.err]
         ELSE readLoop(r.rest, Append(acc, [CVE |-> r.rec[1], Score |-> score.val]))

parseEPSSScoresFile(file) ==
    IF ~file.exists
    THEN [epssScores |-> <<>>, err |-> <<"open: no such file or directory">>]
    ELSE readLoop(csvRead(file.lines).rest, <<>>)

\* ------------------------------------------------------------ LoadCVEMeta

\* the zero fleet.CVEMeta with its CVE set: what a failed map lookup gives
\* once score.CVE is assigned
NewCVEMeta(cve) ==
    [CVE |-> cve, CVSSScore |-> Nil, Published |-> Nil,
     EPSSProbability |-> Nil, CISAKnownExploit |-> Nil]

RECURSIVE seedLoop_noPublished(_, _, _)
\* seedLoop, but the parsed date is not stored in the record
seedLoop_noPublished(dict, order, m) ==
    IF order = <<>> THEN [metaMap |-> m, err |-> Nil]
    ELSE LET cve == Head(order)
             schema == dict[cve]
         IN  IF schema.BaseMetricV3 = Nil THEN seedLoop_noPublished(dict, Tail(order), m)
             ELSE LET published == timeParse(schema.PublishedDate) IN
                  IF published.err # Nil
                  THEN [metaMap |-> m, err |-> <<"parse published_date">> \o published.err]
                  ELSE seedLoop_noPublished(dict, Tail(order),
                           Put(m, cve, [CVE |-> cve,
                                        CVSSScore |-> schema.BaseMetricV3,
                                        Published |-> Nil,
                                        EPSSProbability |-> Nil,
                                        CISAKnownExploit |-> Nil]))

RECURSIVE seedLoop_parseFirst(_, _, _)
\* seedLoop, but the date is parsed before the version 3 block is looked at
seedLoop_parseFirst(dict, order, m) ==
    IF order = <<>> THEN [metaMap |-> m, err |-> Nil]
    ELSE LET cve == Head(order)
             schema == dict[cve]
             published == timeParse(schema.PublishedDate)
         IN  IF published.err # Nil
             THEN [metaMap |-> m, err |-> <<"parse published_date">> \o published.err]
             ELSE IF schema.BaseMetricV3 = Nil
             THEN seedLoop_parseFirst(dict, Tail(order), m)
             ELSE seedLoop_parseFirst(dict, Tail(order),
                      Put(m, cve, [CVE |-> cve,
                                   CVSSScore |-> schema.BaseMetricV3,
                                   Published |-> Some(published.val),
                                   EPSSProbability |-> Nil,
                                   CISAKnownExploit |-> Nil]))

RECURSIVE seedLoop_breakOnNoV3(_, _, _)
\* seedLoop, but an entry without version 3 block ends the loop (break for
\* continue)
seedLoop_breakOnNoV3(dict, order, m) ==
    IF order = <<>> THEN [metaMap |-> m, err |-> Nil]
    ELSE LET cve == Head(order)
             schema == dict[cve]
         IN  IF schema.BaseMetricV3 = Nil THEN [metaMap |-> m, err |-> Nil]
             ELSE LET published == timeParse(schema.PublishedDate) IN
                  IF published.err # Nil
                  THEN [metaMap |-> m, err |-> <<"parse published_date">> \o published.err]
                  ELSE seedLoop_breakOnNoV3(dict, Tail(order),
                           Put(m, cve, [CVE |-> cve,
                                        CVSSScore |-> schema.BaseMetricV3,
                                        Published |-> Some(published.val),
                                        EPSSProbability |-> Nil,
                                        CISAKnownExploit |-> Nil]))

RECURSIVE seedLoop(_, _, _)
\* for cve := range dict, visiting the keys in the given order
seedLoop(dict, order, m) ==
    IF order = <<>> THEN [metaMap |-> m, err |-> Nil]
    ELSE LET cve == Head(order)
             schema == dict[cve]
         IN  IF schema.BaseMetricV3 = Nil THEN seedLoop(dict, Tail(order), m)
             ELSE LET published == timeParse(schema.PublishedDate) IN
                  IF published.err # Nil
                  THEN [metaMap |-> m, err |-> <<"parse published_date">> \o published.err]
                  ELSE seedLoop(dict, Tail(order),
                           Put(m, cve, [CVE |-> cve,
                                        CVSSScore |-> schema.BaseMetricV3,
                                        Published |-> Some(published.val),
                                        EPSSProbability |-> Nil,
                                        CISAKnownExploit |-> Nil]))

\* the address of epssScore.Score in iteration i of the range over epssScores
loopVarAddr(shared, i) == IF shared THEN 0 ELSE i

RECURSIVE epssLoop_noFetch(_, _, _, _, _)
\* epssLoop, but the record of the CVE is always created anew
epssLoop_noFetch(shared, scores, i, m, heap) ==
    IF i > Len(scores) THEN [metaMap |-> m, heap |-> heap]
    ELSE LET epssScore == scores[i]
             addr == loopVarAddr(shared, i)
             score == NewCVEMeta(epssScore.CVE)
         IN  epssLoop_noFetch(shared, scores, i + 1,
                      Put(m, epssScore.CVE, [score EXCEPT !.EPSSProbability = Some(addr)]),
                      Put(heap, addr, epssScore.Score))

RECURSIVE epssLoop(_, _, _, _, _)
\* for _, epssScore := range epssScores, from iteration i on
epssLoop(shared, scores, i, m, heap) ==
    IF i > Len(scores) THEN [metaMap |-> m, heap |-> heap]
    ELSE LET epssScore == scores[i]
             addr == loopVarAddr(shared, i)
             score == IF epssScore.CVE \in DOMAIN m
                      THEN m[epssScore.CVE]
                      ELSE NewCVEMeta(epssScore.CVE)
         IN  epssLoop(shared, scores, i + 1,
                      Put(m, epssScore.CVE, [score EXCEPT !.EPSSProbability = Some(addr)]),
                      Put(heap, addr, epssScore.Score))

\* json.Unmarshal(b, &catalog)
jsonUnmarshal(file) ==
    IF ~file.wellFormed
    THEN [Vulnerabilities |-> <<>>, err |-> <<"invalid character">>]
    ELSE [Vulnerabilities |->
              [i \in DOMAIN file.vulnerabilities |->
                  [CVEID |-> IF file.vulnerabilities[i].hasCveID
                             THEN file.vulnerabilities[i].cveID
                             ELSE ""]],
          err |-> Nil]

RECURSIVE catalogLoop_noCreate(_, _, _)
\* catalogLoop, but an identifier without record is passed over
catalogLoop_noCreate(vulns, i, m) ==
    IF i > Len(vulns) THEN m
    ELSE LET vuln == vulns[i] IN
         IF vuln.CVEID \notin DOMAIN m
         THEN catalogLoop_noCreate(vulns, i + 1, m)
         ELSE catalogLoop_noCreate(vulns, i + 1,
                  Put(m, vuln.CVEID, [m[vuln.CVEID] EXCEPT !.CISAKnownExploit = Some(TRUE)]))

RECURSIVE catalogLoop_fresh(_, _, _)
\* catalogLoop, but the record of the identifier is always created anew
catalogLoop_fresh(vulns, i, m) ==
    IF i > Len(vulns) THEN m
    ELSE LET vuln == vulns[i]
             score == NewCVEMeta(vuln.CVEID)
         IN  catalogLoop_fresh(vulns, i + 1,
                         Put(m, vuln.CVEID, [score EXCEPT !.CISAKnownExploit = Some(TRUE)]))

RECURSIVE catalogLoop(_, _, _)
\* for _, vuln := range catalog.Vulnerabilities, from iteration i on
catalogLoop(vulns, i, m) ==
    IF i > Len(vulns) THEN m
    ELSE LET vuln == vulns[i]
             score == IF vuln.CVEID \in DOMAIN m THEN m[vuln.CVEID] ELSE NewCVEMeta(vuln.CVEID)
         IN  catalogLoop(vulns, i + 1,
                         Put(m, vuln.CVEID, [score EXCEPT !.CISAKnownExploit = Some(TRUE)]))

\* fillDefaults, but records outside the catalog are left as they are
fillDefaults_none(m) == m

\* for cve, meta := range metaMap: the known exploit flag defaults to false
fillDefaults(m) ==
    [cve \in DOMAIN m |->
        IF m[cve].CISAKnownExploit = Nil
        THEN [m[cve] EXCEPT !.CISAKnownExploit = Some(FALSE)]
        ELSE m[cve]]

\* toSlice, but the last record visited is not appended
toSlice_dropLast(m, order) == [i \in 1..(Len(order) - 1) |-> m[order[i]]]

\* for _, score := range metaMap { meta = append(meta, score) }
toSlice(m, order) == [i \in 1..Len(order) |-> m[order[i]]]

\* what the datastore reads through the pointers of one fleet.CVEMeta
Deref(meta, heap) ==
    [meta EXCEPT !.EPSSProbability =
        IF meta.EPSSProbability = Nil THEN Nil ELSE Some(heap[meta.EPSSProbability[1]])]

StoreOutcomes == {"ok", "error", "deadline"}

\* ds.InsertCVEMeta(ctx, meta): the rows are upserted by CVE, all or none
InsertCVEMeta(rows, meta, outcome) ==
    IF outcome = "ok"
    THEN [store |-> [c \in (DOMAIN rows) \cup {meta[i].CVE : i \in DOMAIN meta} |->
                        IF \E i \in DOMAIN meta : meta[i].CVE = c
                        THEN meta[CHOOSE i \in DOMAIN meta :
                                    /\ meta[i].CVE = c
                                    /\ \A j \in DOMAIN meta : meta[j].CVE = c => j <= i]
                        ELSE rows[c]],
          err |-> Nil]
    ELSE [store |-> rows,
          err |-> IF outcome = "deadline"
                  THEN <<"context deadline exceeded">>
                  ELSE <<"insert cve scores">>]

Return(e) == pc' = "done" /\ err' = e

\* lines 166-194: list and decode the NVD feed, seed metaMap from it
LoadCVSS ==
    /\ pc = "cvss"
    /\ IF nvdFeed.state = "listError"
       THEN Return(<<"get nvd cve feeds", "open: permission denied">>) /\ UNCHANGED metaMap
       ELSE IF nvdFeed.state = "loadError"
       THEN Return(<<"unexpected end of JSON input">>) /\ UNCHANGED metaMap
       ELSE \E order \in Orders(DOMAIN nvdFeed.dict) :
               LET r == seedLoop(nvdFeed.dict, order, EmptyMap) IN
               IF r.err # Nil
               THEN Return(r.err) /\ UNCHANGED metaMap
               ELSE pc' = "epss" /\ metaMap' = r.metaMap /\ UNCHANGED err
    /\ UNCHANGED <<files, loopVarShared, flashVars, store, store0, epssScores, epssHeap,
                   insertCalls, syncVars>>

\* LoadEPSS, but a missing EPSS file is downloaded on the spot
LoadEPSS_refetch ==
    /\ pc = "epss"
    /\ IF ~epssFile.exists
       THEN /\ epssFile' = [exists |-> TRUE, lines |-> <<CommentLine, HeaderLine>>]
            /\ downloads' = Append(downloads, [feed |-> "epss", err |-> Nil])
            /\ UNCHANGED <<pc, err, metaMap, epssScores, epssHeap, syncPc, syncErr>>
       ELSE /\ LET p == parseEPSSScoresFile(epssFile) IN
               IF p.err # Nil
               THEN Return(<<"parse epss scores">> \o p.err)
                    /\ UNCHANGED <<metaMap, epssScores, epssHeap>>
               ELSE LET r == epssLoop(loopVarShared, p.epssScores, 1, metaMap, epssHeap) IN
                    /\ pc' = "cisa"
                    /\ epssScores' = p.epssScores
                    /\ metaMap' = r.metaMap
                    /\ epssHeap' = r.heap
                    /\ UNCHANGED err
            /\ UNCHANGED <<epssFile, syncVars>>
    /\ UNCHANGED <<cpeDB, nvdFeed, cisaFile, loopVarShared, flashVars, store, store0, insertCalls>>

\* lines 196-211: parse the EPSS file, overlay the scores
LoadEPSS ==
    /\ pc = "epss"
    /\ LET p == parseEPSSScoresFile(epssFile) IN
       IF p.err # Nil
       THEN Return(<<"parse epss scores">> \o p.err)
            /\ UNCHANGED <<metaMap, epssScores, epssHeap>>
       ELSE LET r == epssLoop(loopVarShared, p.epssScores, 1, metaMap, epssHeap) IN
            /\ pc' = "cisa"
            /\ epssScores' = p.epssScores
            /\ metaMap' = r.metaMap
            /\ epssHeap' = r.heap
            /\ UNCHANGED err
    /\ UNCHANGED <<files, loopVarShared, flashVars, store, store0, insertCalls, syncVars>>

\* lines 213-232: read and decode the CISA catalog, overlay the known exploits
LoadKnownExploits ==
    /\ pc = "cisa"
    /\ IF ~cisaFile.exists
       THEN Return(<<"open: no such file or directory">>) /\ UNCHANGED metaMap
       ELSE LET catalog == jsonUnmarshal(cisaFile) IN
            IF catalog.err # Nil
            THEN Return(<<"unmarshal cisa known exploited vulnerabilities catalog">>
                            \o catalog.err)
                 /\ UNCHANGED metaMap
            ELSE /\ pc' = "fill"
                 /\ metaMap' = catalogLoop(catalog.Vulnerabilities, 1, metaMap)
                 /\ UNCHANGED err
    /\ UNCHANGED <<files, loopVarShared, flashVars, store, store0, epssScores, epssHeap,
                   insertCalls, syncVars>>

\* lines 234-240: every CVE outside the catalog is not a known exploit
FillDefaults ==
    /\ pc = "fill"
    /\ metaMap' = fillDefaults(metaMap)
    /\ pc' = "persist"
    /\ UNCHANGED <<files, loopVarShared, flashVars, store, store0, err, epssScores, epssHeap,
                   insertCalls, syncVars>>

\* Persist, but an empty map is saved like any other
Persist_noEmptyCheck ==
    /\ pc = "persist"
    /\ \E order \in Orders(DOMAIN metaMap), outcome \in StoreOutcomes :
          LET slice == toSlice(metaMap, order)
              meta == [i \in DOMAIN slice |-> Deref(slice[i], epssHeap)]
              r == InsertCVEMeta(store, meta, outcome)
          IN  /\ store' = r.store
              /\ insertCalls' = Append(insertCalls, [meta |-> meta, outcome |-> outcome])
              /\ Return(IF r.err # Nil THEN <<"insert cve meta">> \o r.err ELSE Nil)
    /\ UNCHANGED <<files, loopVarShared, flashVars, store0, metaMap, epssScores, epssHeap, syncVars>>

\* Persist, but a failed InsertCVEMeta is tried a second time
Persist_retry ==
    /\ pc = "persist"
    /\ IF DOMAIN metaMap = {}
       THEN Return(Nil) /\ UNCHANGED <<store, insertCalls>>
       ELSE \E order \in Orders(DOMAIN metaMap), outcome, again \in StoreOutcomes :
               LET slice == toSlice(metaMap, order)
                   meta == [i \in DOMAIN slice |-> Deref(slice[i], epssHeap)]
                   r == InsertCVEMeta(store, meta, outcome)
                   r2 == InsertCVEMeta(store, meta, again)
               IN  IF r.err = Nil
                   THEN /\ store' = r.store
                        /\ insertCalls' =
                               Append(insertCalls, [meta |-> meta, outcome |-> outcome])
                        /\ Return(Nil)
                   ELSE /\ store' = r2.store
                        /\ insertCalls' =
                               insertCalls \o <<[meta |-> meta, outcome |-> outcome],
                                                [meta |-> meta, outcome |-> again]>>
                        /\ Return(IF r2.err # Nil
                                  THEN <<"insert cve meta">> \o r2.err
                                  ELSE Nil)
    /\ UNCHANGED <<files, loopVarShared, flashVars, store0, metaMap, epssScores, epssHeap, syncVars>>

\* lines 242-259: nothing to save, or one InsertCVEMeta of the whole map
Persist ==
    /\ pc = "persist"
    /\ IF DOMAIN metaMap = {}
       THEN Return(Nil) /\ UNCHANGED <<store, insertCalls>>
       ELSE \E order \in Orders(DOMAIN metaMap), outcome \in StoreOutcomes :
               LET slice == toSlice(metaMap, order)
                   meta == [i \in DOMAIN slice |-> Deref(slice[i], epssHeap)]
                   r == InsertCVEMeta(store, meta, outcome)
               IN  /\ store' = r.store
                   /\ insertCalls' = Append(insertCalls, [meta |-> meta, outcome |-> outcome])
                   /\ Return(IF r.err # Nil THEN <<"insert cve meta">> \o r.err ELSE Nil)
    /\ UNCHANGED <<files, loopVarShared, flashVars, store0, metaMap, epssScores, epssHeap, syncVars>>

\* a row left in cve_meta by an earlier run
StaleRow ==
    [CVE |-> "V-1", CVSSScore |-> Some(500), Published |-> Some(20200101),
     EPSSProbability |-> Some(99), CISAKnownExploit |-> Some(TRUE)]

StoresBefore == {EmptyMap, [c \in {"V-1"} |-> StaleRow]}

\* LoadCVEMeta is called on whatever files are on disk
Init ==
    /\ cpeDB = "cpe.sqlite"
    /\ nvdFeed \in NVDFeeds
    /\ epssFile \in EPSSFiles
    /\ cisaFile \in CISAFiles
    /\ loopVarShared \in BOOLEAN
    /\ store0 \in StoresBefore
    /\ store = store0
    /\ pc = "cvss"
    /\ err = Nil
    /\ metaMap = EmptyMap
    /\ epssScores = <<>>
    /\ epssHeap = EmptyMap
    /\ insertCalls = <<>>
    /\ syncPc = "off"
    /\ downloads = <<>>
    /\ syncErr = Nil
    /\ props = NoProps
    /\ hide = FALSE
    /\ effectPending = FALSE
    /\ timer = Nil
    /\ lastRemove = NoRemove

Next == LoadCVSS \/ LoadEPSS \/ LoadKnownExploits \/ FillDefaults \/ Persist

Spec == Init /\ [][Next]_vars

\* ------------------------------------------------------------------ Sync

\* why a download can fail
DownloadCauses == {"dial tcp: i/o timeout", "unexpected status code 404"}

\* the outcomes of one download primitive writing one of the given contents:
\* the file is replaced, or the download fails and the file is left as it was
Fetch(contents) ==
    {[err |-> Nil, content |-> Some(c)] : c \in contents}
        \cup {[err |-> <<c>>, content |-> Nil] : c \in DownloadCauses}

\* DownloadEPSSFeed: the error of download.DownloadAndExtract, wrapped
DownloadEPSSFeed(fetched) ==
    IF fetched.err # Nil
    THEN [fetched EXCEPT !.err =
            <<"download https://epss.cyentia.com/epss_scores-current.csv.gz">> \o fetched.err]
    ELSE fetched

\* DownloadCISAKnownExploitsFeed: the error of download.Download, wrapped
DownloadCISAKnownExploitsFeed(fetched) ==
    IF fetched.err # Nil
    THEN [fetched EXCEPT !.err = <<"download cisa known exploits">> \o fetched.err]
    ELSE fetched

\* SyncStep, but Sync goes on to the next download after a failed one
SyncStep_continue(feed, msg, r, next) ==
    /\ downloads' = Append(downloads, [feed |-> feed, err |-> r.err])
    /\ syncPc' = next
    /\ IF r.err # Nil /\ syncErr = Nil
       THEN syncErr' = <<msg>> \o r.err
       ELSE UNCHANGED syncErr

\* one "if err := Download...; err != nil { return fmt.Errorf(...) }" of Sync
SyncStep(feed, msg, r, next) ==
    /\ downloads' = Append(downloads, [feed |-> feed, err |-> r.err])
    /\ IF r.err # Nil
       THEN syncPc' = "done" /\ syncErr' = <<msg>> \o r.err
       ELSE syncPc' = next /\ UNCHANGED syncErr

\* lines 29-31
SyncCPE ==
    /\ syncPc = "cpe"
    /\ \E r \in Fetch({"cpe.sqlite"}) :
          /\ SyncStep("cpe", "sync CPE database", r, "nvd")
          /\ cpeDB' = IF r.err = Nil THEN r.content[1] ELSE cpeDB
    /\ UNCHANGED <<nvdFeed, epssFile, cisaFile, loopVarShared, flashVars, store0, loadVars>>

\* lines 33-35
SyncNVD ==
    /\ syncPc = "nvd"
    /\ \E r \in Fetch({f \in NVDFeeds : f.state # "listError"}) :
          /\ SyncStep("nvd", "sync NVD CVE feed", r, "epss")
          /\ nvdFeed' = IF r.err = Nil THEN r.content[1] ELSE nvdFeed
    /\ UNCHANGED <<cpeDB, epssFile, cisaFile, loopVarShared, flashVars, store0, loadVars>>

\* lines 37-39
SyncEPSS ==
    /\ syncPc = "epss"
    /\ \E f \in Fetch({f \in EPSSFiles : f.exists}) :
          LET r == DownloadEPSSFeed(f) IN
          /\ SyncStep("epss", "sync EPSS CVE feed", r, "cisa")
          /\ epssFile' = IF r.err = Nil THEN r.content[1] ELSE epssFile
    /\ UNCHANGED <<cpeDB, nvdFeed, cisaFile, loopVarShared, flashVars, store0, loadVars>>

\* lines 41-45
SyncCISA ==
    /\ syncPc = "cisa"
    /\ \E f \in Fetch({f \in CISAFiles : f.exists}) :
          LET r == DownloadCISAKnownExploitsFeed(f) IN
          /\ SyncStep("cisa", "sync CISA known exploits feed", r, "done")
          /\ cisaFile' = IF r.err = Nil THEN r.content[1] ELSE cisaFile
    /\ UNCHANGED <<cpeDB, nvdFeed, epssFile, loopVarShared, flashVars, store0, loadVars>>

\* Sync is called on an empty vulnerability directory
InitSync ==
    /\ cpeDB = "none"
    /\ nvdFeed = [state |-> "ok", dict |-> EmptyMap]
    /\ epssFile = [exists |-> FALSE, lines |-> <<>>]
    /\ cisaFile = [exists |-> FALSE, wellFormed |-> FALSE, vulnerabilities |-> <<>>]
    /\ loopVarShared \in BOOLEAN
    /\ store0 = EmptyMap
    /\ store = store0
    /\ pc = "off"
    /\ err = Nil
    /\ metaMap = EmptyMap
    /\ epssScores = <<>>
    /\ epssHeap = EmptyMap
    /\ insertCalls = <<>>
    /\ syncPc = "cpe"
    /\ downloads = <<>>
    /\ syncErr = Nil
    /\ props = NoProps
    /\ hide = FALSE
    /\ effectPending = FALSE
    /\ timer = Nil
    /\ lastRemove = NoRemove

NextSync == SyncCPE \/ SyncNVD \/ SyncEPSS \/ SyncCISA

SpecSync == InitSync /\ [][NextSync]_vars

\* ------------------------------------------- Sync, then LoadCVEMeta

\* the scheduler calls LoadCVEMeta, for the first time or again, once Sync
\* has returned
CallLoadCVEMeta ==
    /\ syncPc = "done"
    /\ pc \in {"off", "done"}
    /\ pc' = "cvss"
    /\ err' = Nil
    /\ metaMap' = EmptyMap
    /\ epssScores' = <<>>
    /\ epssHeap' = EmptyMap
    /\ insertCalls' = <<>>
    /\ store0' = store
    /\ UNCHANGED <<files, loopVarShared, flashVars, store, syncVars>>

NextBoth ==
    \/ SyncCPE \/ SyncNVD \/ SyncEPSS \/ SyncCISA
    \/ CallLoadCVEMeta
    \/ LoadCVSS \/ LoadEPSS \/ LoadKnownExploits \/ FillDefaults \/ Persist

SpecBoth == InitSync /\ [][NextBoth]_vars

\* ----------------------------------------------------------- FlashMessage

\* the state of the vulnerability feeds, which the component never touches
backend == <<files, loopVarShared, store0, loadVars, syncVars>>

\* line 53: the condition under which the effect sets the timeout
AutoDismiss(p) ==
    /\ ~p.isPersistent
    /\ p.notification.alertType = "success"
    /\ p.notification.isVisible

\* lines 67-69: the component renders its markup, the close button included
Rendered == ~(hide \/ ~props.notification.isVisible)

\* The parent renders the component with new props. The effect of lines 48-65
\* is scheduled when one of its dependencies (line 65) differs from the
\* previous render; isPersistent and onRemoveFlash are not among them. React
\* runs a scheduled effect after the render is committed, and always before
\* it renders the component again.
Render ==
    /\ ~effectPending
    /\ \E p \in AllProps \ {props} :
          /\ props' = p
          /\ effectPending' = (Deps(p) # Deps(props))
    /\ UNCHANGED <<hide, timer, lastRemove, backend>>

\* lines 48-65: the cleanup of the previous effect (line 60) clears its
\* timeout, then the effect resets hide and, when the props call for it, sets
\* a new timeout
RunEffect ==
    /\ effectPending
    /\ effectPending' = FALSE
    /\ hide' = FALSE
    /\ timer' = IF AutoDismiss(props) THEN Some(Deps(props)) ELSE Nil
    /\ UNCHANGED <<props, lastRemove, backend>>

\* lines 55-58: the timeout set at line 54 comes due and its callback runs;
\* a timeout not yet cleared can come due at any time, also after a render
\* whose effect has not run yet
TimerFire ==
    /\ timer # Nil
    /\ hide' = TRUE
    /\ lastRemove' = [by |-> "timer", timerDeps |-> timer[1], props |-> props]
    /\ timer' = Nil
    /\ UNCHANGED <<props, effectPending, backend>>

\* lines 92-95: the user clicks the close button
ClickRemove ==
    /\ Rendered
    /\ lastRemove' = [by |-> "click", timerDeps |-> Deps(props), props |-> props]
    /\ UNCHANGED <<props, hide, effectPending, timer, backend>>

\* the component is mounted with some props: hide is false (line 44) and the
\* effect of the first render is still to run
InitFlash ==
    /\ cpeDB = "none"
    /\ nvdFeed = [state |-> "ok", dict |-> EmptyMap]
    /\ epssFile = [exists |-> FALSE, lines |-> <<>>]
    /\ cisaFile = [exists |-> FALSE, wellFormed |-> FALSE, vulnerabilities |-> <<>>]
    /\ loopVarShared = FALSE
    /\ store0 = EmptyMap
    /\ store = store0
    /\ pc = "off"
    /\ err = Nil
    /\ metaMap = EmptyMap
    /\ epssScores = <<>>
    /\ epssHeap = EmptyMap
    /\ insertCalls = <<>>
    /\ syncPc = "off"
    /\ downloads = <<>>
    /\ syncErr = Nil
    /\ props \in AllProps
    /\ hide = FALSE
    /\ effectPending = TRUE
    /\ timer = Nil
    /\ lastRemove = NoRemove

NextFlash == Render \/ RunEffect \/ TimerFire \/ ClickRemove

SpecFlash == InitFlash /\ [][NextFlash]_vars

\* ------------------------------------------------------- claims: helpers

\* the record of each CVE as the datastore would read it
Canonical == [cve \in DOMAIN metaMap |-> Deref(metaMap[cve], epssHeap)]

\* the default-fill pass of LoadCVEMeta has run
MergeDone ==
    \/ pc = "persist"
    \/ pc = "done" /\ (err = Nil \/ err[1] = "insert cve meta")

\* the error LoadCVEMeta returned came from the NVD stage
CVSSStageFailed ==
    /\ pc = "done"
    /\ err # Nil
    /\ err[1] \in {"get nvd cve feeds", "unexpected end of JSON input", "parse published_date"}

\* parseEPSSScoresFile has been called and has returned
EPSSParsed == pc \in {"cisa", "fill", "persist", "done"} /\ ~CVSSStageFailed

\* the rows of the EPSS file after its header (line 1 is a comment, line 2
\* the header)
DataRows == {i \in 3..Len(epssFile.lines) : ~epssFile.lines[i].comment}

NumericFields == {"0.42", "0.10", "0.5"}

\* the CVE identifiers of the catalog file
CatalogIDs ==
    {IF cisaFile.vulnerabilities[i].hasCveID THEN cisaFile.vulnerabilities[i].cveID ELSE "" :
        i \in DOMAIN cisaFile.vulnerabilities}

RowLine(cve, score) == [comment |-> FALSE, fields |-> <<cve, score, "0.5">>]

\* ----------------------------------------------------------------- C1

\* C1: at every point of a run of LoadCVEMeta, and whatever its outcome, the
\* datastore holds either exactly the rows it held before the run or every
\* record of the run's map; never only a part of the batch.
C1_AllOrNothing ==
    \/ store = store0
    \/ \A cve \in DOMAIN metaMap : cve \in DOMAIN store /\ store[cve] = Canonical[cve]

\* a batch of two or more records whose write ran out of time
C1_Witness ==
    /\ pc = "done"
    /\ Len(insertCalls) = 1
    /\ insertCalls[1].outcome = "deadline"
    /\ Cardinality(DOMAIN metaMap) >= 2
    /\ store = store0

\* ----------------------------------------------------------------- C2

\* C2: once the merge is complete every record has its known exploit flag
\* set, to true exactly when its identifier is in the catalog.
C2_KnownExploitIffInCatalog ==
    MergeDone =>
        \A cve \in DOMAIN metaMap :
            metaMap[cve].CISAKnownExploit = Some(cve \in CatalogIDs)

\* a merge that ends with a record inside and a record outside the catalog
C2_Witness ==
    /\ MergeDone
    /\ \E a, b \in DOMAIN metaMap :
          /\ metaMap[a].CISAKnownExploit = Some(TRUE)
          /\ metaMap[b].CISAKnownExploit = Some(FALSE)

\* ----------------------------------------------------------------- C3

\* the score of the last pair of epssScores that carries the identifier
LastScore(cve) ==
    LET last == CHOOSE i \in DOMAIN epssScores :
                    /\ epssScores[i].CVE = cve
                    /\ \A j \in DOMAIN epssScores : epssScores[j].CVE = cve => j <= i
    IN  epssScores[last].Score

\* C3: every identifier of the probability feed ends with the score of the
\* last pair that carries it, whatever the pairs of the other identifiers.
C3_LastPairWins ==
    MergeDone =>
        \A i \in DOMAIN epssScores :
            /\ epssScores[i].CVE \in DOMAIN metaMap
            /\ Canonical[epssScores[i].CVE].EPSSProbability
                   = Some(LastScore(epssScores[i].CVE))

\* ----------------------------------------------------------------- C4

\* severity {V-1: 7.5, 2021-01-01}, probability (V-1, 0.42) (V-2, 0.10),
\* catalog {V-2}
C4_Scenario ==
    /\ nvdFeed = [state |-> "ok",
                  dict |-> [c \in {"V-1"} |->
                              [BaseMetricV3 |-> Some(750), PublishedDate |-> GoodDate]]]
    /\ epssFile = [exists |-> TRUE,
                   lines |-> <<CommentLine, HeaderLine,
                               RowLine("V-1", "0.42"), RowLine("V-2", "0.10")>>]
    /\ cisaFile = [exists |-> TRUE, wellFormed |-> TRUE,
                   vulnerabilities |-> <<[hasCveID |-> TRUE, cveID |-> "V-2"]>>]

C4_Expected(probabilityOfV1) ==
    [c \in {"V-1", "V-2"} |->
        IF c = "V-1"
        THEN [CVE |-> "V-1", CVSSScore |-> Some(750), Published |-> Some(20210101),
              EPSSProbability |-> probabilityOfV1, CISAKnownExploit |-> Some(FALSE)]
        ELSE [CVE |-> "V-2", CVSSScore |-> Nil, Published |-> Nil,
              EPSSProbability |-> Some(10), CISAKnownExploit |-> Some(TRUE)]]

BadDateInput ==
    /\ nvdFeed.state = "ok"
    /\ \E cve \in DOMAIN nvdFeed.dict :
          /\ nvdFeed.dict[cve].BaseMetricV3 # Nil
          /\ nvdFeed.dict[cve].PublishedDate = BadDate

\* a row of three fields whose score is no number
BadScoreInput ==
    /\ epssFile.exists
    /\ \E i \in DataRows :
          /\ Len(epssFile.lines[i].fields) = 3
          /\ epssFile.lines[i].fields[2] \notin NumericFields

BadJSONInput == cisaFile.exists /\ ~cisaFile.wellFormed

\* C5: when a published date, a score of a three field row or the catalog
\* JSON is malformed, InsertCVEMeta is never called and LoadCVEMeta returns
\* an error.
C5_ParseFailureAborts ==
    (BadDateInput \/ BadScoreInput \/ BadJSONInput) =>
        /\ insertCalls = <<>>
        /\ pc = "done" => err # Nil

\* a malformed score after records were merged and a well formed row was read
C5_Witness ==
    /\ pc = "done"
    /\ metaMap # EmptyMap
    /\ Len(epssFile.lines) = 4
    /\ epssFile.lines[3] = RowLine("V-2", "0.10")
    /\ epssFile.lines[4] = RowLine("V-1", "abc")
    /\ err = <<"parse epss scores", "parse epss score", "strconv.ParseFloat: invalid syntax">>
    /\ insertCalls = <<>>

\* ----------------------------------------------------------------- C6

\* the file has a row of another length than three, and every row of three
\* fields has a numeric score
ShortRowInput ==
    /\ epssFile.exists
    /\ \E i \in DataRows : Len(epssFile.lines[i].fields) # 3
    /\ \A i \in DataRows :
          Len(epssFile.lines[i].fields) = 3 =>
              epssFile.lines[i].fields[2] \in NumericFields

RECURSIVE WellFormedPairs(_)
\* the pairs of the rows of three fields, in file order
WellFormedPairs(lines) ==
    IF lines = <<>> THEN <<>>
    ELSE IF ~Head(lines).comment /\ Len(Head(lines).fields) = 3
    THEN <<[CVE |-> Head(lines).fields[1],
            Score |-> ParseFloat(Head(lines).fields[2]).val]>>
             \o WellFormedPairs(Tail(lines))
    ELSE WellFormedPairs(Tail(lines))

\* C6: a row whose field count is not 3 is skipped: the parse returns no
\* error and the pairs of the other rows, in file order.
C6_ShortRowSkipped ==
    (EPSSParsed /\ ShortRowInput) =>
        /\ err = Nil \/ err[1] # "parse epss scores"
        /\ epssScores = WellFormedPairs(SubSeq(epssFile.lines, 3, Len(epssFile.lines)))

\* ----------------------------------------------------------------- C7

\* no severity record, no probability pair, no catalog identifier
AllEmptyInput ==
    /\ nvdFeed.state = "ok"
    /\ \A cve \in DOMAIN nvdFeed.dict : nvdFeed.dict[cve].BaseMetricV3 = Nil
    /\ epssFile.exists
    /\ DataRows = {}
    /\ cisaFile.exists
    /\ cisaFile.wellFormed
    /\ cisaFile.vulnerabilities = <<>>

\* C7: with three empty parse results LoadCVEMeta returns nil without calling
\* InsertCVEMeta, and InsertCVEMeta is never called with an empty slice.
C7_EmptySkipsPersist ==
    /\ AllEmptyInput => (insertCalls = <<>> /\ (pc = "done" => err = Nil))
    /\ \A i \in DOMAIN insertCalls : insertCalls[i].meta # <<>>

\* a run over a dictionary without version 3 entries, an EPSS file of
\* comments and an empty catalog, returned
C7_Witness ==
    /\ AllEmptyInput
    /\ DOMAIN nvdFeed.dict # {}
    /\ Len(epssFile.lines) > 2
    /\ pc = "done"
    /\ err = Nil

\* ----------------------------------------------------------------- C8

FeedOrder == <<"cpe", "nvd", "epss", "cisa">>

SyncMessage(feed) ==
    CASE feed = "cpe" -> "sync CPE database"
      [] feed = "nvd" -> "sync NVD CVE feed"
      [] feed = "epss" -> "sync EPSS CVE feed"
      [] feed = "cisa" -> "sync CISA known exploits feed"

\* C8: Sync attempts the downloads in the order CPE, NVD, EPSS, CISA, each
\* only after all earlier ones succeeded and none after a failure; its error
\* names the failing feed and wraps the download's error; it returns nil
\* exactly when the four downloads succeeded.
C8_SyncOrder ==
    /\ Len(downloads) <= 4
    /\ \A i \in DOMAIN downloads : downloads[i].feed = FeedOrder[i]
    /\ \A i \in DOMAIN downloads : i < Len(downloads) => downloads[i].err = Nil
    /\ syncPc # "done" =>
          /\ syncErr = Nil
          /\ \A i \in DOMAIN downloads : downloads[i].err = Nil
    /\ syncPc = "done" =>
          IF Len(downloads) = 4 /\ downloads[4].err = Nil
          THEN syncErr = Nil
          ELSE /\ downloads # <<>>
               /\ downloads[Len(downloads)].err # Nil
               /\ DownloadCauses \cap
                      {downloads[Len(downloads)].err[k] :
                          k \in DOMAIN downloads[Len(downloads)].err} # {}
               /\ syncErr = <<SyncMessage(downloads[Len(downloads)].feed)>>
                                \o downloads[Len(downloads)].err

\* Sync returned after the EPSS download failed: CISA was not attempted
C8_Witness ==
    /\ syncPc = "done"
    /\ Len(downloads) = 3
    /\ downloads[3].err # Nil
    /\ syncErr[1] = "sync EPSS CVE feed"

\* ----------------------------------------------------------------- C9

\* C9: a run calls InsertCVEMeta at most once, with exactly one record for
\* every key of the map; when the call fails or runs out of time LoadCVEMeta
\* returns the store's error wrapped and no second call is made.
C9_OneInsertNoRetry ==
    /\ Len(insertCalls) <= 1
    /\ \A i \in DOMAIN insertCalls :
          LET meta == insertCalls[i].meta IN
          /\ Len(meta) = Cardinality(DOMAIN metaMap)
          /\ {meta[j].CVE : j \in DOMAIN meta} = DOMAIN metaMap
          /\ \A j \in DOMAIN meta : meta[j] = Canonical[meta[j].CVE]
    /\ (pc = "done" /\ insertCalls # <<>>) =>
          CASE insertCalls[1].outcome = "ok" -> err = Nil
            [] insertCalls[1].outcome = "error" ->
                  err = <<"insert cve meta", "insert cve scores">>
            [] insertCalls[1].outcome = "deadline" ->
                  err = <<"insert cve meta", "context deadline exceeded">>

\* a batch of two or more records refused by the store
C9_Witness ==
    /\ pc = "done"
    /\ Len(insertCalls) = 1
    /\ insertCalls[1].outcome = "error"
    /\ Len(insertCalls[1].meta) >= 2
    /\ err # Nil

\* ----------------------------------------------------------------- C10

\* C10: no record of the map, and so none passed to InsertCVEMeta, has an
\* empty identifier, and no two records passed to InsertCVEMeta share one.
C10_IdentifiersNonEmptyAndUnique ==
    /\ \A cve \in DOMAIN metaMap : cve # "" /\ metaMap[cve].CVE # ""
    /\ \A i \in DOMAIN insertCalls :
          LET meta == insertCalls[i].meta IN
          /\ \A j \in DOMAIN meta : meta[j].CVE # ""
          /\ \A j, k \in DOMAIN meta : meta[j].CVE = meta[k].CVE => j = k

\* ----------------------------------------------------------------- C11

\* the identifiers the severity parser makes a record for
SeverityIDs ==
    {cve \in DOMAIN nvdFeed.dict : nvdFeed.dict[cve].BaseMetricV3 # Nil}

\* the identifiers of the probability feed's pairs
ProbabilityIDs == {epssScores[i].CVE : i \in DOMAIN epssScores}

\* C11: an identifier with a severity record that is in neither the
\* probability feed nor the catalog ends with the entry's score and published
\* time, no exploit probability and known exploit false.
C11_SeverityOnly ==
    MergeDone =>
        \A cve \in SeverityIDs \ (ProbabilityIDs \cup CatalogIDs) :
            /\ cve \in DOMAIN metaMap
            /\ Canonical[cve] =
                  [CVE |-> cve,
                   CVSSScore |-> nvdFeed.dict[cve].BaseMetricV3,
                   Published |->
                       IF nvdFeed.dict[cve].PublishedDate = GoodDate
                       THEN Some(20210101) ELSE Nil,
                   EPSSProbability |-> Nil,
                   CISAKnownExploit |-> Some(FALSE)]

\* V-1 is known to the severity feed only, V-2 to the other two feeds
C11_Witness ==
    /\ pc = "persist"
    /\ "V-1" \in SeverityIDs \ (ProbabilityIDs \cup CatalogIDs)
    /\ "V-2" \in ProbabilityIDs \cap CatalogIDs

\* ----------------------------------------------------------------- C12

\* C12: an identifier that is in the catalog only ends with known exploit
\* true and no score, no published time and no exploit probability.
C12_CatalogOnly ==
    MergeDone =>
        \A cve \in CatalogIDs \ (SeverityIDs \cup ProbabilityIDs) :
            /\ cve \in DOMAIN metaMap
            /\ Canonical[cve] =
                  [CVE |-> cve, CVSSScore |-> Nil, Published |-> Nil,
                   EPSSProbability |-> Nil, CISAKnownExploit |-> Some(TRUE)]

\* V-2 is in the catalog only, next to records of the other two feeds
C12_Witness ==
    /\ pc = "persist"
    /\ "V-2" \in CatalogIDs \ (SeverityIDs \cup ProbabilityIDs)
    /\ SeverityIDs # {}
    /\ ProbabilityIDs # {}

\* ----------------------------------------------------------------- C13

\* the contexts LoadCVEMeta and Sync put in front of an error: each names
\* the stage and the feed or file
ErrorContexts ==
    {"get nvd cve feeds", "load nvd cve feeds", "parse published_date",
     "parse epss scores", "read cisa known exploited vulnerabilities catalog",
     "unmarshal cisa known exploited vulnerabilities catalog", "insert cve meta",
     "sync CPE database", "sync NVD CVE feed", "sync EPSS CVE feed",
     "sync CISA known exploits feed"}

\* the error is a cause with a context in front of it
Wrapped(e) == Len(e) >= 2 /\ e[1] \in ErrorContexts

\* C13: every error Sync or LoadCVEMeta returns is wrapped with a context
\* that names the failing stage and the feed or file.
C13_ErrorsWrapped ==
    /\ (pc = "done" /\ err # Nil) => Wrapped(err)
    /\ (syncPc = "done" /\ syncErr # Nil) => Wrapped(syncErr)

\* ----------------------------------------------------------------- C14

\* the map a run of the merge gives on the files on disk when the range over
\* the dictionary visits it in the given order
MergeOf(order) ==
    LET seeded == seedLoop(nvdFeed.dict, order, EmptyMap)
        parsed == parseEPSSScoresFile(epssFile)
        scored == epssLoop(loopVarShared, parsed.epssScores, 1, seeded.metaMap, EmptyMap)
        marked == catalogLoop(jsonUnmarshal(cisaFile).Vulnerabilities, 1, scored.metaMap)
        filled == fillDefaults(marked)
    IN  [cve \in DOMAIN filled |-> Deref(filled[cve], scored.heap)]

\* C14: the merge is a function of the three parsed inputs: the map of a run
\* equals, record by record, the map of any other run on the same inputs,
\* whatever the order in which the dictionary is visited.
C14_MergeDeterministic ==
    MergeDone => \A order \in Orders(DOMAIN nvdFeed.dict) : Canonical = MergeOf(order)

\* a merge over a dictionary of two entries, one of them without version 3
\* block, and both other feeds
C14_Witness ==
    /\ pc = "persist"
    /\ Cardinality(DOMAIN nvdFeed.dict) = 2
    /\ Cardinality(SeverityIDs) = 1
    /\ epssScores # <<>>
    /\ CatalogIDs # {}

\* ----------------------------------------------------------------- C15

LoadPositions == {"cvss", "epss", "cisa", "fill", "persist"}

\* C15: a step of LoadCVEMeta downloads nothing and leaves every feed file as
\* it is; a step of Sync parses nothing and leaves the datastore and its calls
\* alone. So LoadCVEMeta is re-run on the downloaded files without a fetch.
C15_Frames ==
    [][/\ pc \in LoadPositions =>
            /\ UNCHANGED <<cpeDB, nvdFeed, epssFile, cisaFile>>
            /\ UNCHANGED <<syncPc, downloads, syncErr>>
       /\ syncPc' # syncPc =>
            UNCHANGED <<store, insertCalls, pc, err, metaMap, epssScores, epssHeap>>]_vars

\* after a Sync of the four feeds LoadCVEMeta was run, and run again, and
\* saved its records both times
C15_Witness ==
    /\ syncPc = "done"
    /\ Len(downloads) = 4
    /\ syncErr = Nil
    /\ pc = "done"
    /\ store0 # EmptyMap
    /\ insertCalls # <<>>
    /\ insertCalls[1].outcome = "ok"

\* ----------------------------------------------------------------- C16

\* C16: the merged map has a record for exactly the identifiers of the three
\* feeds; the overlay of the scores keeps every record and its score and
\* published time; the overlay of the catalog and the default-fill keep every
\* record and its score, published time and exploit probability.
C16_OverlaysOnlyAdd ==
    /\ [](MergeDone => DOMAIN metaMap = SeverityIDs \cup ProbabilityIDs \cup CatalogIDs)
    /\ [][/\ pc = "epss" =>
               \A cve \in DOMAIN metaMap :
                   /\ cve \in DOMAIN metaMap'
                   /\ metaMap'[cve].CVE = metaMap[cve].CVE
                   /\ metaMap'[cve].CVSSScore = metaMap[cve].CVSSScore
                   /\ metaMap'[cve].Published = metaMap[cve].Published
          /\ pc \in {"cisa", "fill"} =>
               \A cve \in DOMAIN metaMap :
                   /\ cve \in DOMAIN metaMap'
                   /\ metaMap'[cve].CVE = metaMap[cve].CVE
                   /\ metaMap'[cve].CVSSScore = metaMap[cve].CVSSScore
                   /\ metaMap'[cve].Published = metaMap[cve].Published
                   /\ Deref(metaMap'[cve], epssHeap').EPSSProbability
                          = Deref(metaMap[cve], epssHeap).EPSSProbability]_vars

\* a record all three feeds wrote to, next to one the severity feed lacks
C16_Witness ==
    /\ pc = "persist"
    /\ \E a, b \in DOMAIN metaMap :
          /\ a \in SeverityIDs \cap ProbabilityIDs \cap CatalogIDs
          /\ metaMap[a].CVSSScore # Nil
          /\ metaMap[a].EPSSProbability # Nil
          /\ metaMap[a].CISAKnownExploit = Some(TRUE)
          /\ b \notin SeverityIDs

\* ----------------------------------------------------------------- C17

\* the entries of the dictionary without version 3 block
NoV3IDs == {cve \in DOMAIN nvdFeed.dict : nvdFeed.dict[cve].BaseMetricV3 = Nil}

\* C17: an entry without version 3 block gives no severity record and its
\* published date is not parsed: a malformed one does not make LoadCVEMeta
\* fail, and the identifier has a record only when one of the other two feeds
\* has it, then without score and published time.
C17_NoV3EntrySkipped ==
    /\ (/\ nvdFeed.state = "ok"
        /\ pc # "cvss"
        /\ \A cve \in SeverityIDs : nvdFeed.dict[cve].PublishedDate = GoodDate)
           => ~CVSSStageFailed
    /\ pc \in {"epss", "cisa", "fill", "persist"} \/ MergeDone =>
           \A cve \in NoV3IDs :
               cve \in DOMAIN metaMap =>
                   /\ cve \in ProbabilityIDs \cup CatalogIDs
                   /\ metaMap[cve].CVSSScore = Nil
                   /\ metaMap[cve].Published = Nil

\* a merge over two entries without version 3 block and with malformed
\* dates, one of them in the probability feed
C17_Witness ==
    /\ pc = "persist"
    /\ NoV3IDs = {"V-1", "V-2"}
    /\ \A cve \in NoV3IDs : nvdFeed.dict[cve].PublishedDate = BadDate
    /\ "V-1" \in DOMAIN metaMap
    /\ "V-2" \notin DOMAIN metaMap

\* ----------------------------------------------------------------- C18

\* the timeout that has just called onRemoveFlash was set for the props the
\* component has now
FiredForCurrent ==
    /\ lastRemove.by = "timer"
    /\ lastRemove.timerDeps = Deps(lastRemove.props)

\* C18: once notification, alertType or isVisible has changed, the timeout
\* set for the previous values does nothing any more: a timeout that sets
\* hide and calls onRemoveFlash was set for the values the component has at
\* that moment, and after the effect has run hide is false again.
C18_OldTimerCancelled ==
    /\ lastRemove.by = "timer" => FiredForCurrent
    /\ (timer # Nil /\ ~effectPending) => timer[1] = Deps(props)
    /\ (hide /\ ~effectPending) => FiredForCurrent

\* ----------------------------------------------------------------- C19

\* C19: only a visible, non-persistent success message is dismissed on its
\* own: a timeout is pending for the current props, or has dismissed them,
\* only if isPersistent is false, alertType is "success" and isVisible is
\* true; any other message stays until the close button or the parent
\* removes it.
C19_OnlySuccessAutoDismissed ==
    /\ (timer # Nil /\ ~effectPending) => AutoDismiss(props)
    /\ FiredForCurrent => AutoDismiss(lastRemove.props)

====
